---- MODULE Spec2Model ----
(***************************************************************************)
(* LiquidTWI: driver of an HD44780 character LCD behind an MCP23008 I2C    *)
(* GPIO expander (src/LiquidTWI.cpp).                                      *)
(*                                                                         *)
(* The state is the driver object's members.  Every public method is one   *)
(* action that runs the whole method body; what the method does to the     *)
(* outside world (Wire calls, delays, the row table lookup) is recorded,   *)
(* in program order, in `trace`, until the sketch goes on (Resume).  The   *)
(* transport's answer to Wire.endTransmission() is an input of each call.  *)
(***************************************************************************)
EXTENDS Integers, Sequences, FiniteSets, TLC

VARIABLES
    _i2cAddr,          \* uint8_t  3-bit address selector of the expander
    _displayfunction,  \* uint8_t  function-set flags
    _displaycontrol,   \* uint8_t  display-control flags, bit 3 = backlight
    _displaymode,      \* uint8_t  entry-mode flags
    _numlines,         \* uint8_t  configured line count
    _currline,         \* uint8_t
    lastOp,            \* the call that has just returned: [name, args]
    trace,             \* what that call did, in program order
    begun,             \* begin() has run at least once
    lastBacklight,     \* "unset", or the state asked for by the most recent
                       \* setBacklight (begin asks for "on")
    pc,                \* a call followed statement by statement: the calls
                       \* it makes, the place it is at (0 when none is
                       \* running) and the members as it will leave them
    lcd                \* what the LCD module has latched: the last command
                       \* of each kind, and the backlight pin of the expander

vars == <<_i2cAddr, _displayfunction, _displaycontrol, _displaymode,
          _numlines, _currline, lastOp, trace, begun, lastBacklight, pc, lcd>>

---------------------------------------------------------------------------
(* Bounds of the model *)

\* most NACKs the transport answers to one transaction before it accepts it
MaxNack == 1
\* largest `lines` argument of begin()
MaxLines == 4
\* largest row argument of setCursor()
MaxRow == 4

\* constructor arguments
CtorArgs == {0, 7, 8, 255}
\* the byte the object's storage is filled with before the constructor runs
UninitValues == {0, 255}
\* what a read past the end of row_offsets[] may return (16-bit int pattern)
JunkWords == {0, 65535}
\* bytes passed to write() and command()
Bytes == {65, 165}
\* arguments of begin()
ColsArgs == {16}
LinesArgs == 0..MaxLines
DotsizeArgs == {0, 4}
\* arguments of setCursor()
ColArgs == {0, 15}
RowArgs == 0..MaxRow
\* arguments of setBacklight()
StatusArgs == {0, 1, 2}
\* arguments of createChar()
LocationArgs == {5, 21}
Glyphs == { <<0, 0, 0, 0, 0, 0, 0, 0>>, <<1, 2, 4, 8, 16, 31, 170, 255>> }

---------------------------------------------------------------------------
(* uint8_t / int arithmetic *)

\* bit k of x
Bit(x, k) == (x \div (2 ^ k)) % 2

\* a & b and a | b on uint8_t, tabulated bit by bit
AndTable ==
    [a \in 0..255 |-> [b \in 0..255 |->
        Bit(a, 0) * Bit(b, 0)       + Bit(a, 1) * Bit(b, 1) * 2
      + Bit(a, 2) * Bit(b, 2) * 4   + Bit(a, 3) * Bit(b, 3) * 8
      + Bit(a, 4) * Bit(b, 4) * 16  + Bit(a, 5) * Bit(b, 5) * 32
      + Bit(a, 6) * Bit(b, 6) * 64  + Bit(a, 7) * Bit(b, 7) * 128]]

And(a, b) == AndTable[a][b]

\* a | b = a + b - (a & b)
Or(a, b) == a + b - AndTable[a][b]

\* x & ~m on a uint8_t
AndNot(x, m) == And(x, 255 - m)
\* (uint8_t) x
U8(x) == x % 256

---------------------------------------------------------------------------
(* LiquidTWI.h *)

LCD_CLEARDISPLAY == 1
LCD_RETURNHOME == 2
LCD_ENTRYMODESET == 4
LCD_DISPLAYCONTROL == 8
LCD_CURSORSHIFT == 16
LCD_FUNCTIONSET == 32
LCD_SETCGRAMADDR == 64
LCD_SETDDRAMADDR == 128

LCD_ENTRYLEFT == 2
LCD_ENTRYSHIFTINCREMENT == 1
LCD_ENTRYSHIFTDECREMENT == 0

LCD_DISPLAYON == 4
LCD_CURSORON == 2
LCD_BLINKON == 1
LCD_BACKLIGHT == 8

LCD_DISPLAYMOVE == 8
LCD_MOVERIGHT == 4
LCD_MOVELEFT == 0

LCD_4BITMODE == 0
LCD_2LINE == 8
LCD_1LINE == 0
LCD_5x10DOTS == 4
LCD_5x8DOTS == 0

MCP23008_ADDRESS == 32
MCP23008_IODIR == 0
MCP23008_GPIO == 9

\* Arduino.h
LOW == 0
HIGH == 1

---------------------------------------------------------------------------
(* The outside world, as the driver sees it *)

Ev(c, a) == [call |-> c, arg |-> a]

\* A running method: the object, what it has done so far, and its inputs:
\* nack = how many times the transport refuses each transaction before it
\* accepts it, junk = what a read past row_offsets[] returns.
Frame(self, nack, junk) ==
    [self |-> self, out |-> <<>>, nack |-> nack, junk |-> junk]

Emit(f, evs) == [f EXCEPT !.out = @ \o evs]

delay(f, ms) == Emit(f, <<Ev("delay", ms)>>)
delayMicroseconds(f, us) == Emit(f, <<Ev("delayMicroseconds", us)>>)

---------------------------------------------------------------------------
(* LiquidTWI *)

\* the constructor without  if (i2cAddr > 7) i2cAddr = 7;
LiquidTWI_noclamp(i2cAddr, u) ==
    [ _i2cAddr         |-> i2cAddr,
      _displayfunction |-> 0,
      _displaycontrol  |-> u.dc,
      _displaymode     |-> u.dm,
      _numlines        |-> u.nl,
      _currline        |-> u.cl ]

\* LiquidTWI::LiquidTWI(uint8_t i2cAddr).  The constructor assigns two
\* members; u holds whatever the other four happen to contain.
LiquidTWI(i2cAddr, u) ==
    [ _i2cAddr         |-> IF i2cAddr > 7 THEN 7 ELSE i2cAddr,
      _displayfunction |-> Or(Or(LCD_4BITMODE, LCD_1LINE), LCD_5x8DOTS),
      _displaycontrol  |-> u.dc,
      _displaymode     |-> u.dm,
      _numlines        |-> u.nl,
      _currline        |-> u.cl ]

\* if (Wire.endTransmission()) ;  -- one attempt, whatever it reports
EndTransmissionLoop_once(f) ==
    <<Ev("endTransmission", IF f.nack > 0 THEN 1 ELSE 0)>>

\* while (Wire.endTransmission()) ;  -- the calls the loop makes
EndTransmissionLoop(f) ==
    [i \in 1..f.nack |-> Ev("endTransmission", 1)] \o <<Ev("endTransmission", 0)>>

\* void LiquidTWI::burstBits(uint8_t value)
burstBits(f, value) ==
    Emit(f, << Ev("beginTransmission", Or(MCP23008_ADDRESS, f.self._i2cAddr)),
               Ev("write", MCP23008_GPIO),
               Ev("write", value) >>
            \o EndTransmissionLoop(f))

\* (_displaycontrol & LCD_BACKLIGHT) ? 0x80 : 0x00
BacklightBit(f) ==
    IF And(f.self._displaycontrol, LCD_BACKLIGHT) # 0 THEN 128 ELSE 0

\* one nibble of send() that never takes EN low again
SendNibble_no_strobe(f, buf, mode) ==
    LET b1 == Or(buf, IF mode # 0 THEN 6 ELSE 4)
        b2 == Or(b1, BacklightBit(f))
    IN  burstBits(burstBits(f, b2), b2)

\* one nibble of send(): buf is the nibble already shifted to bits 6..3
SendNibble(f, buf, mode) ==
    LET b1 == Or(buf, IF mode # 0 THEN 6 ELSE 4)   \* 3 << 1 : 2 << 1
        b2 == Or(b1, BacklightBit(f))
        f1 == burstBits(f, b2)
        b3 == AndNot(b2, 4)                        \* buf &= ~(1 << 2)
    IN  burstBits(f1, b3)

\* send() that raises RS for the first nibble only
send_rs_high_only(f, value, mode) ==
    LET f1 == SendNibble(f, And(value, 240) \div 2, mode)
    IN  SendNibble(f1, U8(And(value, 15) * 8), LOW)

\* send() that crunches the low 4 bits first
send_low_first(f, value, mode) ==
    LET f1 == SendNibble(f, U8(And(value, 15) * 8), mode)
    IN  SendNibble(f1, And(value, 240) \div 2, mode)

\* void LiquidTWI::send(uint8_t value, uint8_t mode)
send(f, value, mode) ==
    LET f1 == SendNibble(f, And(value, 240) \div 2, mode)
    IN  SendNibble(f1, U8(And(value, 15) * 8), mode)

\* inline void LiquidTWI::command(uint8_t value)
command(f, value) == send(f, U8(value), LOW)

\* inline size_t LiquidTWI::write(uint8_t value)
write(f, value) == send(f, U8(value), HIGH)

\* setBacklight() that only notes the flag
setBacklight_silent(f, status) ==
    [f EXCEPT !.self._displaycontrol =
        IF status # 0 THEN Or(@, 8) ELSE AndNot(@, 8)]

\* void LiquidTWI::setBacklight(uint8_t status)
setBacklight(f, status) ==
    LET dc == IF status # 0                        \* bitWrite(_displaycontrol,3,status)
              THEN Or(f.self._displaycontrol, 8)
              ELSE AndNot(f.self._displaycontrol, 8)
        f1 == [f EXCEPT !.self._displaycontrol = dc]
    IN  burstBits(f1, BacklightBit(f1))

\* clear() that returns as soon as the command is out
clear_nowait(f) == command(f, LCD_CLEARDISPLAY)

\* void LiquidTWI::clear()
clear(f) == delayMicroseconds(command(f, LCD_CLEARDISPLAY), 2000)

\* void LiquidTWI::home()
home(f) == delayMicroseconds(command(f, LCD_RETURNHOME), 2000)

\* the table with the rows in address order
row_offsets_sorted == <<0, 20, 64, 84>>

\* int row_offsets[] = { 0x00, 0x40, 0x14, 0x54 };
row_offsets == <<0, 64, 20, 84>>

\* the row setCursor() indexes row_offsets[] with
CursorRow(f, row) ==
    IF row > f.self._numlines THEN U8(f.self._numlines - 1) ELSE row

\* void LiquidTWI::setCursor(uint8_t col, uint8_t row)
setCursor(f, col, row) ==
    LET r   == CursorRow(f, row)
        off == IF r < Len(row_offsets) THEN row_offsets[r + 1] ELSE f.junk
        f1  == Emit(f, <<Ev("row_offsets", r)>>)
    IN  command(f1, Or(LCD_SETDDRAMADDR, U8(col + off)))

\* display-control toggles that add the flags to the opcode
SetControl_sum(f, dc) ==
    LET f1 == [f EXCEPT !.self._displaycontrol = dc]
    IN  command(f1, LCD_DISPLAYCONTROL + dc)

\* display-control toggles
SetControl(f, dc) ==
    LET f1 == [f EXCEPT !.self._displaycontrol = dc]
    IN  command(f1, Or(LCD_DISPLAYCONTROL, dc))

\* display() that assigns the flag instead of or-ing it in
display_assign(f) == SetControl(f, LCD_DISPLAYON)

noDisplay(f) == SetControl(f, AndNot(f.self._displaycontrol, LCD_DISPLAYON))
display(f)   == SetControl(f, Or(f.self._displaycontrol, LCD_DISPLAYON))
noCursor(f)  == SetControl(f, AndNot(f.self._displaycontrol, LCD_CURSORON))
cursor(f)    == SetControl(f, Or(f.self._displaycontrol, LCD_CURSORON))
noBlink(f)   == SetControl(f, AndNot(f.self._displaycontrol, LCD_BLINKON))
blink(f)     == SetControl(f, Or(f.self._displaycontrol, LCD_BLINKON))

scrollDisplayLeft(f) ==
    command(f, Or(Or(LCD_CURSORSHIFT, LCD_DISPLAYMOVE), LCD_MOVELEFT))
scrollDisplayRight(f) ==
    command(f, Or(Or(LCD_CURSORSHIFT, LCD_DISPLAYMOVE), LCD_MOVERIGHT))

\* entry-mode toggles
SetMode(f, dm) ==
    LET f1 == [f EXCEPT !.self._displaymode = dm]
    IN  command(f1, Or(LCD_ENTRYMODESET, dm))

\* rightToLeft() that resets the whole field
rightToLeft_reset(f) == SetMode(f, 0)

leftToRight(f)  == SetMode(f, Or(f.self._displaymode, LCD_ENTRYLEFT))
rightToLeft(f)  == SetMode(f, AndNot(f.self._displaymode, LCD_ENTRYLEFT))
autoscroll(f)   == SetMode(f, Or(f.self._displaymode, LCD_ENTRYSHIFTINCREMENT))
noAutoscroll(f) == SetMode(f, AndNot(f.self._displaymode, LCD_ENTRYSHIFTINCREMENT))

\* for (int i=0; i<8; i++) write(charmap[i]);
RECURSIVE WriteRows(_, _, _)
WriteRows(f, charmap, i) ==
    IF i >= 8 THEN f
    ELSE WriteRows(write(f, charmap[i + 1]), charmap, i + 1)

\* createChar() without location &= 0x7
createChar_nomask(f, location, charmap) ==
    WriteRows(command(f, Or(LCD_SETCGRAMADDR, U8(location * 8))), charmap, 0)

\* void LiquidTWI::createChar(uint8_t location, uint8_t charmap[])
createChar(f, location, charmap) ==
    LET loc == And(location, 7)
        f1  == command(f, Or(LCD_SETCGRAMADDR, loc * 8))
    IN  WriteRows(f1, charmap, 0)

\* Wire.endTransmission(); with the result thrown away (begin, twice)
EndTransmissionOnce(f) ==
    <<Ev("endTransmission", IF f.nack > 0 THEN 1 ELSE 0)>>

\* the expander set to outputs without the bank of junk data first
ConfigureExpander_direct(f) ==
    Emit(f, << Ev("beginTransmission", Or(MCP23008_ADDRESS, f.self._i2cAddr)),
               Ev("write", MCP23008_IODIR),
               Ev("write", 0) >>
            \o EndTransmissionOnce(f))

\* begin(): the two transactions that configure the expander
ConfigureExpander(f) ==
    LET dev == Or(MCP23008_ADDRESS, f.self._i2cAddr)
        f1  == Emit(f, << Ev("beginTransmission", dev),
                          Ev("write", MCP23008_IODIR),
                          Ev("write", 255) >>
                       \o [i \in 1..9 |-> Ev("write", 0)]
                       \o EndTransmissionOnce(f))
    IN  Emit(f1, << Ev("beginTransmission", dev),
                    Ev("write", MCP23008_IODIR),
                    Ev("write", 0) >>
                 \o EndTransmissionOnce(f))

\* begin(): _displayfunction, _numlines, _currline
SetGeometry(f, lines, dotsize) ==
    LET df1 == IF lines > 1
               THEN Or(f.self._displayfunction, LCD_2LINE)
               ELSE f.self._displayfunction
        df2 == IF dotsize # 0 /\ lines = 1 THEN Or(df1, LCD_5x10DOTS) ELSE df1
    IN  [f EXCEPT !.self._displayfunction = df2,
                  !.self._numlines = lines,
                  !.self._currline = 0]

\* the handshake with "repeat twice more" done once
Handshake_short(f) ==
    LET f1 == burstBits(f,  156)
        f2 == burstBits(f1, 152)
        f3 == burstBits(f2, 156)
        f4 == burstBits(f3, 152)
        f5 == burstBits(f4, 148)
    IN  burstBits(f5, 144)

\* begin(): the eight burstBits() that reset the LCD into 4-bit mode
Handshake(f) ==
    LET f1 == burstBits(f,  156)   \* B10011100
        f2 == burstBits(f1, 152)   \* B10011000
        f3 == burstBits(f2, 156)
        f4 == burstBits(f3, 152)
        f5 == burstBits(f4, 156)
        f6 == burstBits(f5, 152)
        f7 == burstBits(f6, 148)   \* B10010100
    IN  burstBits(f7, 144)         \* B10010000

\* the configuration with the function set sent once and the display
\* cleared before it is turned on
Configure_once(f) ==
    LET fs == Or(LCD_FUNCTIONSET, f.self._displayfunction)
        f1 == delay(f, 5)
        f2 == delay(command(f1, fs), 5)
        f4 == clear([f2 EXCEPT !.self._displaycontrol = LCD_DISPLAYON])
        f5 == display(f4)
        dm == Or(LCD_ENTRYLEFT, LCD_ENTRYSHIFTDECREMENT)
        f6 == [f5 EXCEPT !.self._displaymode = dm]
        f7 == command(f6, Or(LCD_ENTRYMODESET, dm))
    IN  setBacklight(f7, HIGH)

\* begin(): everything after the handshake
Configure(f) ==
    LET fs == Or(LCD_FUNCTIONSET, f.self._displayfunction)
        f1 == delay(f, 5)
        f2 == delay(command(f1, fs), 5)
        f3 == delay(command(f2, fs), 5)
        f4 == display([f3 EXCEPT !.self._displaycontrol = LCD_DISPLAYON])
        f5 == clear(f4)
        dm == Or(LCD_ENTRYLEFT, LCD_ENTRYSHIFTDECREMENT)
        f6 == [f5 EXCEPT !.self._displaymode = dm]
        f7 == command(f6, Or(LCD_ENTRYMODESET, dm))
    IN  setBacklight(f7, HIGH)

\* void LiquidTWI::begin(uint8_t cols, uint8_t lines, uint8_t dotsize)
begin(f, cols, lines, dotsize) ==
    LET f1 == Emit(delay(f, 50), <<Ev("Wire.begin", 0)>>)
        f2 == ConfigureExpander(f1)
        f3 == SetGeometry(f2, lines, dotsize)
        f4 == Handshake(f3)
    IN  Configure(f4)

---------------------------------------------------------------------------
(* The state machine *)

Self ==
    [ _i2cAddr         |-> _i2cAddr,
      _displayfunction |-> _displayfunction,
      _displaycontrol  |-> _displaycontrol,
      _displaymode     |-> _displaymode,
      _numlines        |-> _numlines,
      _currline        |-> _currline ]

\* a method is entered with the transport refusing each transaction n times
Enter(n) == Frame(Self, n, 0)

\* the sketch is between two calls
Idle == lastOp.name = "none"

\* the members as a method leaves them
Members(f) ==
    /\ _i2cAddr' = f.self._i2cAddr
    /\ _displayfunction' = f.self._displayfunction
    /\ _displaycontrol' = f.self._displaycontrol
    /\ _displaymode' = f.self._displaymode
    /\ _numlines' = f.self._numlines
    /\ _currline' = f.self._currline

\* a method has run to its end: the members and the record of what it did
Called(name, args, f) ==
    /\ Members(f)
    /\ lastOp' = [name |-> name, args |-> args]
    /\ trace' = f.out

\* a method is called and returns
Return(name, args, f) ==
    /\ Idle
    /\ Called(name, args, f)
    /\ UNCHANGED <<pc, lcd>>

\* no call is being followed statement by statement
NotRunning == [at |-> 0, prog |-> <<>>, ret |-> <<>>]
\* nothing has been sent to the LCD module yet
NothingSent == [value |-> 0, raw |-> FALSE]
Unlatched ==
    [control |-> NothingSent, mode |-> NothingSent, function |-> NothingSent,
     backlight |-> 0]

\* the members the constructor leaves as it found them
Uninit == { [dc |-> v, dm |-> v, nl |-> v, cl |-> v] : v \in UninitValues }

Init ==
    \E a \in CtorArgs, u \in Uninit :
        LET self == LiquidTWI(a, u) IN
        /\ _i2cAddr = self._i2cAddr
        /\ _displayfunction = self._displayfunction
        /\ _displaycontrol = self._displaycontrol
        /\ _displaymode = self._displaymode
        /\ _numlines = self._numlines
        /\ _currline = self._currline
        /\ lastOp = [name |-> "LiquidTWI", args |-> <<a>>]
        /\ trace = <<>>
        /\ begun = FALSE
        /\ lastBacklight = "unset"
        /\ pc = NotRunning
        /\ lcd = Unlatched

Begin ==
    \E n \in 0..MaxNack, cols \in ColsArgs, lines \in LinesArgs, dotsize \in DotsizeArgs :
        /\ Return("begin", <<cols, lines, dotsize>>, begin(Enter(n), cols, lines, dotsize))
        /\ begun' = TRUE
        /\ lastBacklight' = "on"

SetBacklight ==
    \E n \in 0..MaxNack, status \in StatusArgs :
        /\ Return("setBacklight", <<status>>, setBacklight(Enter(n), status))
        /\ lastBacklight' = IF status # 0 THEN "on" ELSE "off"
        /\ UNCHANGED begun

Clear ==
    \E n \in 0..MaxNack :
        /\ Return("clear", <<>>, clear(Enter(n)))
        /\ UNCHANGED <<begun, lastBacklight>>

Home ==
    \E n \in 0..MaxNack :
        /\ Return("home", <<>>, home(Enter(n)))
        /\ UNCHANGED <<begun, lastBacklight>>

SetCursor ==
    \E n \in 0..MaxNack, col \in ColArgs, row \in RowArgs :
        \E junk \in IF CursorRow(Enter(n), row) < Len(row_offsets) THEN {0} ELSE JunkWords :
            /\ Return("setCursor", <<col, row>>,
                      setCursor(Frame(Self, n, junk), col, row))
            /\ UNCHANGED <<begun, lastBacklight>>

NoDisplay ==
    \E n \in 0..MaxNack :
        /\ Return("noDisplay", <<>>, noDisplay(Enter(n)))
        /\ UNCHANGED <<begun, lastBacklight>>

Display ==
    \E n \in 0..MaxNack :
        /\ Return("display", <<>>, display(Enter(n)))
        /\ UNCHANGED <<begun, lastBacklight>>

NoCursor ==
    \E n \in 0..MaxNack :
        /\ Return("noCursor", <<>>, noCursor(Enter(n)))
        /\ UNCHANGED <<begun, lastBacklight>>

Cursor ==
    \E n \in 0..MaxNack :
        /\ Return("cursor", <<>>, cursor(Enter(n)))
        /\ UNCHANGED <<begun, lastBacklight>>

NoBlink ==
    \E n \in 0..MaxNack :
        /\ Return("noBlink", <<>>, noBlink(Enter(n)))
        /\ UNCHANGED <<begun, lastBacklight>>

Blink ==
    \E n \in 0..MaxNack :
        /\ Return("blink", <<>>, blink(Enter(n)))
        /\ UNCHANGED <<begun, lastBacklight>>

ScrollDisplayLeft ==
    \E n \in 0..MaxNack :
        /\ Return("scrollDisplayLeft", <<>>, scrollDisplayLeft(Enter(n)))
        /\ UNCHANGED <<begun, lastBacklight>>

ScrollDisplayRight ==
    \E n \in 0..MaxNack :
        /\ Return("scrollDisplayRight", <<>>, scrollDisplayRight(Enter(n)))
        /\ UNCHANGED <<begun, lastBacklight>>

LeftToRight ==
    \E n \in 0..MaxNack :
        /\ Return("leftToRight", <<>>, leftToRight(Enter(n)))
        /\ UNCHANGED <<begun, lastBacklight>>

RightToLeft ==
    \E n \in 0..MaxNack :
        /\ Return("rightToLeft", <<>>, rightToLeft(Enter(n)))
        /\ UNCHANGED <<begun, lastBacklight>>

Autoscroll ==
    \E n \in 0..MaxNack :
        /\ Return("autoscroll", <<>>, autoscroll(Enter(n)))
        /\ UNCHANGED <<begun, lastBacklight>>

NoAutoscroll ==
    \E n \in 0..MaxNack :
        /\ Return("noAutoscroll", <<>>, noAutoscroll(Enter(n)))
        /\ UNCHANGED <<begun, lastBacklight>>

CreateChar ==
    \E n \in 0..MaxNack, location \in LocationArgs, charmap \in Glyphs :
        /\ Return("createChar", <<location, charmap>>,
                  createChar(Enter(n), location, charmap))
        /\ UNCHANGED <<begun, lastBacklight>>

Command ==
    \E n \in 0..MaxNack, value \in Bytes :
        /\ Return("command", <<value>>, command(Enter(n), value))
        /\ UNCHANGED <<begun, lastBacklight>>

Write ==
    \E n \in 0..MaxNack, value \in Bytes :
        /\ Return("write", <<value>>, write(Enter(n), value))
        /\ UNCHANGED <<begun, lastBacklight>>

\* the sketch goes on to its next statement
Resume ==
    /\ ~Idle
    /\ pc.at = 0
    /\ lastOp' = [name |-> "none", args |-> <<>>]
    /\ trace' = <<>>
    /\ UNCHANGED <<_i2cAddr, _displayfunction, _displaycontrol, _displaymode,
                   _numlines, _currline, begun, lastBacklight, pc, lcd>>

Next ==
    \/ Resume
    \/ Begin
    \/ SetBacklight
    \/ Clear
    \/ Home
    \/ SetCursor
    \/ NoDisplay
    \/ Display
    \/ NoCursor
    \/ Cursor
    \/ NoBlink
    \/ Blink
    \/ ScrollDisplayLeft
    \/ ScrollDisplayRight
    \/ LeftToRight
    \/ RightToLeft
    \/ Autoscroll
    \/ NoAutoscroll
    \/ CreateChar
    \/ Command
    \/ Write

Spec == Init /\ [][Next]_vars

---------------------------------------------------------------------------
(* The same methods with their arguments drawn from their whole range *)

\* write() and command() of every byte
AllBytes == 0..255
\* setCursor() at every column of a 16-column display
AllCols == 0..15

WriteAny ==
    \E n \in 0..MaxNack, value \in AllBytes :
        /\ Return("write", <<value>>, write(Enter(n), value))
        /\ UNCHANGED <<begun, lastBacklight>>

CommandAny ==
    \E n \in 0..MaxNack, value \in AllBytes :
        /\ Return("command", <<value>>, command(Enter(n), value))
        /\ UNCHANGED <<begun, lastBacklight>>

SetCursorAnyCol ==
    \E n \in 0..MaxNack, col \in AllCols, row \in RowArgs :
        \E junk \in IF CursorRow(Enter(n), row) < Len(row_offsets) THEN {0} ELSE JunkWords :
            /\ Return("setCursor", <<col, row>>,
                      setCursor(Frame(Self, n, junk), col, row))
            /\ UNCHANGED <<begun, lastBacklight>>

NextArgs ==
    \/ Resume
    \/ Begin
    \/ SetBacklight
    \/ WriteAny
    \/ CommandAny
    \/ SetCursorAnyCol

SpecArgs == Init /\ [][NextArgs]_vars

---------------------------------------------------------------------------
(* A sketch that positions the cursor and writes a character at once:      *)
(*     lcd.begin(..);  loop: lcd.setCursor(col, row); lcd.write(value);    *)
(* The record of the setCursor() call is kept and write() adds to it.      *)

WriteAfterSetCursor ==
    \E n \in 0..MaxNack, value \in Bytes :
        LET f == write(Enter(n), value) IN
        /\ lastOp.name = "setCursor"
        /\ lastOp' = [name |-> "setCursor;write", args |-> lastOp.args \o <<value>>]
        /\ trace' = trace \o f.out
        /\ UNCHANGED <<_i2cAddr, _displayfunction, _displaycontrol, _displaymode,
                       _numlines, _currline, begun, lastBacklight, pc, lcd>>

NextSketch ==
    \/ Resume
    \/ Begin
    \/ SetCursor
    \/ WriteAfterSetCursor

SpecSketch == Init /\ [][NextSketch]_vars

---------------------------------------------------------------------------
(* Reading a trace *)

Min(a, b) == IF a < b THEN a ELSE b

Item(kind, dev, bytes, acks, arg) ==
    [kind |-> kind, dev |-> dev, bytes |-> bytes, acks |-> acks, arg |-> arg]

\* The trace cut into bus transactions (device, the bytes written, the
\* results of every endTransmission() that followed) and other events.
Events(tr) ==
    LET Starts(i) == tr[i].call \notin {"write", "endTransmission"}
        st == SelectSeq([i \in 1..Len(tr) |-> i], Starts)
        IsWrite(e) == e.call = "write"
        IsEnd(e) == e.call = "endTransmission"
        Args(es) == [j \in 1..Len(es) |-> es[j].arg]
        Body(k) == SubSeq(tr, st[k] + 1,
                          IF k < Len(st) THEN st[k + 1] - 1 ELSE Len(tr))
    IN  [k \in 1..Len(st) |->
            IF tr[st[k]].call = "beginTransmission"
            THEN Item("txn", tr[st[k]].arg,
                      Args(SelectSeq(Body(k), IsWrite)),
                      Args(SelectSeq(Body(k), IsEnd)), 0)
            ELSE Item(tr[st[k]].call, 0, <<>>, <<>>, tr[st[k]].arg)]

IsTxn(it) == it.kind = "txn"
\* a write of the expander's output register
IsRegWrite(it) == it.kind = "txn" /\ Len(it.bytes) = 2 /\ it.bytes[1] = MCP23008_GPIO

Txns(tr) == SelectSeq(Events(tr), IsTxn)

\* the values written to the output register, in order
RegWrites(tr) ==
    LET w == SelectSeq(Events(tr), IsRegWrite)
    IN  [i \in 1..Len(w) |-> w[i].bytes[2]]

\* What the LCD sees: a nibble (D7..D4 = bits 6..3, RS = bit 1) each time
\* EN (bit 2) falls, and the pauses between them.
Sig(kind, rs, arg) == [kind |-> kind, rs |-> rs, arg |-> arg]
Nibble(rs, d) == Sig("nibble", rs, d)

ViewOf(it) ==
    LET \* EN as the write before item i left it (low before the first)
        PrevEn(i) ==
            LET P == {j \in 1..(i - 1) : IsRegWrite(it[j])}
            IN  IF P = {} THEN 0
                ELSE Bit(it[CHOOSE j \in P : \A k \in P : k <= j].bytes[2], 2)
        Falls(i) == IsRegWrite(it[i]) /\ PrevEn(i) = 1 /\ Bit(it[i].bytes[2], 2) = 0
        Seen(i) == Falls(i) \/ it[i].kind \in {"delay", "delayMicroseconds"}
        sel == SelectSeq([i \in 1..Len(it) |-> i], Seen)
    IN  [k \in 1..Len(sel) |->
            LET x == it[sel[k]] IN
            IF IsRegWrite(x)
            THEN Nibble(Bit(x.bytes[2], 1), (x.bytes[2] \div 8) % 16)
            ELSE Sig(x.kind, 0, x.arg)]

View(tr) == ViewOf(Events(tr))

IsNibble(x) == x.kind = "nibble"
Nibbles(tr) == SelectSeq(View(tr), IsNibble)

\* a command / data byte as the two nibbles the LCD receives
Cmd(v) == <<Nibble(0, v \div 16), Nibble(0, v % 16)>>
Data(v) == <<Nibble(1, v \div 16), Nibble(1, v % 16)>>
Wait(kind, least) == <<Sig(kind, 0, least)>>

\* v is pat, with every pause at least as long as in pat
Matches(v, pat) ==
    /\ Len(v) = Len(pat)
    /\ \A i \in 1..Len(pat) :
          /\ v[i].kind = pat[i].kind
          /\ IF pat[i].kind = "nibble" THEN v[i] = pat[i] ELSE v[i].arg >= pat[i].arg

\* the byte the LCD received as its k-th and (k+1)-th nibble
ByteAt(n, k) == n[k].arg * 16 + n[k + 1].arg

\* position in v of the k-th nibble (0 if there is none)
NthNibble(v, k) ==
    LET At(i) == /\ v[i].kind = "nibble"
                 /\ Cardinality({j \in 1..i : v[j].kind = "nibble"}) = k
    IN  IF \E i \in 1..Len(v) : At(i) THEN CHOOSE i \in 1..Len(v) : At(i) ELSE 0

---------------------------------------------------------------------------
(* The sketch of the usage note: setup() calls begin(), loop() calls the    *)
(* other methods. Two specifications follow it: one keeps what the LCD      *)
(* module has latched over the calls, the other follows a call from one     *)
(* answer of the transport to the next.                                     *)

\* the method of that name, called with these arguments
Method(name, args, f) ==
    CASE name = "begin"              -> begin(f, args[1], args[2], args[3])
      [] name = "setBacklight"       -> setBacklight(f, args[1])
      [] name = "clear"              -> clear(f)
      [] name = "home"               -> home(f)
      [] name = "setCursor"          -> setCursor(f, args[1], args[2])
      [] name = "noDisplay"          -> noDisplay(f)
      [] name = "display"            -> display(f)
      [] name = "noCursor"           -> noCursor(f)
      [] name = "cursor"             -> cursor(f)
      [] name = "noBlink"            -> noBlink(f)
      [] name = "blink"              -> blink(f)
      [] name = "scrollDisplayLeft"  -> scrollDisplayLeft(f)
      [] name = "scrollDisplayRight" -> scrollDisplayRight(f)
      [] name = "leftToRight"        -> leftToRight(f)
      [] name = "rightToLeft"        -> rightToLeft(f)
      [] name = "autoscroll"         -> autoscroll(f)
      [] name = "noAutoscroll"       -> noAutoscroll(f)
      [] name = "createChar"         -> createChar(f, args[1], args[2])
      [] name = "command"            -> command(f, args[1])
      [] name = "write"              -> write(f, args[1])

NoArgMethods ==
    { "clear", "home", "noDisplay", "display", "noCursor", "cursor",
      "noBlink", "blink", "scrollDisplayLeft", "scrollDisplayRight",
      "leftToRight", "rightToLeft", "autoscroll", "noAutoscroll" }

\* commands a sketch may pass to command() itself: display control with
\* display, cursor and blink on, entry mode with both flags set, function
\* set for two lines and the 5x10 font
RawCommands ==
    { LCD_DISPLAYCONTROL + LCD_DISPLAYON + LCD_CURSORON + LCD_BLINKON,
      LCD_ENTRYMODESET + LCD_ENTRYLEFT + LCD_ENTRYSHIFTINCREMENT,
      LCD_FUNCTIONSET + LCD_2LINE + LCD_5x10DOTS }

SketchLines == {1, 2}

Call(name, args) == [name |-> name, args |-> args]

\* the calls of the sketch
SketchCalls ==
         { Call("begin", <<cols, lines, 0>>) : cols \in ColsArgs, lines \in SketchLines }
    \cup { Call("setBacklight", <<status>>) : status \in {LOW, HIGH} }
    \cup { Call(m, <<>>) : m \in NoArgMethods }
    \cup { Call("setCursor", <<col, 1>>) : col \in ColArgs }
    \cup { Call("createChar", <<location, charmap>>) :
              location \in {21}, charmap \in Glyphs }
    \cup { Call("command", <<value>>) : value \in RawCommands }
    \cup { Call("write", <<value>>) : value \in Bytes }

\* what row_offsets[row] reads when row is past the table's end
JunkFor(c) ==
    IF c.name = "setCursor" /\ CursorRow(Enter(0), c.args[2]) >= Len(row_offsets)
    THEN JunkWords ELSE {0}

\* begun and lastBacklight after the call c
Noted(c) ==
    /\ begun' = (begun \/ c.name = "begin")
    /\ lastBacklight' =
          IF c.name = "begin" THEN "on"
          ELSE IF c.name = "setBacklight"
               THEN (IF c.args[1] # 0 THEN "on" ELSE "off")
               ELSE lastBacklight

\* the command bytes the LCD module receives of a call, in order: after
\* the four single nibbles of begin()'s handshake, two nibbles a byte
CommandsAfter(n, off) ==
    LET IsCommand(k) == n[off + 2 * k - 1].rs = 0
        sel == SelectSeq([k \in 1..((Len(n) - off) \div 2) |-> k], IsCommand)
    IN  [i \in 1..Len(sel) |-> ByteAt(n, off + 2 * sel[i] - 1)]

CommandBytes(name, tr) ==
    CommandsAfter(Nibbles(tr), IF name = "begin" THEN 4 ELSE 0)

\* the last of the commands c with that opcode, or the one kept so far
LastOrKept(k, old, raw) ==
    IF k = <<>> THEN old ELSE [value |-> k[Len(k)], raw |-> raw]

LastOfKind(c, opcode, old, raw) ==
    LET IsKind(v) == v >= opcode /\ v < 2 * opcode
    IN  LastOrKept(SelectSeq(c, IsKind), old, raw)

Latched(l, raw, c, w) ==
    [control   |-> LastOfKind(c, LCD_DISPLAYCONTROL, l.control, raw),
     mode      |-> LastOfKind(c, LCD_ENTRYMODESET, l.mode, raw),
     function  |-> LastOfKind(c, LCD_FUNCTIONSET, l.function, raw),
     backlight |-> IF w = <<>> THEN l.backlight ELSE Bit(w[Len(w)], 7)]

\* the LCD module after a call: it keeps the last command of each kind (an
\* HD44780 tells the kind by the highest bit set) and the expander drives
\* the backlight with bit 7 of the last byte written to its output register
Latch(l, name, tr) ==
    Latched(l, name = "command", CommandBytes(name, tr), RegWrites(tr))

\* a call of the sketch, from entry to return
Latching(c, f) ==
    /\ Idle
    /\ c.name = "begin" \/ begun
    /\ Called(c.name, c.args, f)
    /\ lcd' = Latch(lcd, c.name, f.out)
    /\ Noted(c)
    /\ UNCHANGED pc

LatchedCall ==
    \E c \in SketchCalls, n \in 0..MaxNack :
        \E junk \in JunkFor(c) :
            Latching(c, Method(c.name, c.args, Frame(Self, n, junk)))

NextLatch ==
    \/ Resume
    \/ LatchedCall

SpecLatch == Init /\ [][NextLatch]_vars

\* every method once, for following it statement by statement
StepCalls ==
         { Call("begin", <<16, 2, 0>>), Call("setCursor", <<15, 1>>),
           Call("createChar", <<21, <<1, 2, 4, 8, 16, 31, 170, 255>> >>),
           Call("command", <<165>>), Call("write", <<65>>) }
    \cup { Call("setBacklight", <<status>>) : status \in {LOW, HIGH} }
    \cup { Call(m, <<>>) : m \in NoArgMethods }

\* The calls a method makes when every register write is refused once:
\* a refused endTransmission() that the method repeats is followed by the
\* repeated one, one that it does not repeat is followed by its next call.
Program(c, junk) == Method(c.name, c.args, Frame(Self, 1, junk))

IsEndTransmission(e) == e.call = "endTransmission"

\* the first endTransmission() of p at or after place i (0 if none)
NextEnd(p, i) ==
    LET E == {j \in i..Len(p) : IsEndTransmission(p[j])}
    IN  IF E = {} THEN 0 ELSE CHOOSE j \in E : \A k \in E : j <= k

\* the endTransmission() at place i of p is the condition of a while loop
Repeats(p, i) == i < Len(p) /\ IsEndTransmission(p[i + 1])

\* the method goes on after the endTransmission() at pc.at, which reported
\* rc: to its next endTransmission(), or to its end
GoOn(rc) ==
    LET p == pc.prog
        j == IF Repeats(p, pc.at) THEN pc.at + 2 ELSE pc.at + 1
        k == NextEnd(p, j)
    IN  IF k > 0
        THEN /\ pc' = [pc EXCEPT !.at = k]
             /\ trace' = <<Ev("endTransmission", rc)>> \o SubSeq(p, j, k - 1)
             /\ UNCHANGED <<_i2cAddr, _displayfunction, _displaycontrol,
                            _displaymode, _numlines, _currline, lastOp,
                            begun, lastBacklight, lcd>>
        ELSE /\ pc' = NotRunning
             /\ Members([self |-> pc.ret[1]])
             /\ UNCHANGED lastOp
             /\ trace' = <<Ev("endTransmission", rc)>> \o SubSeq(p, j, Len(p))
             /\ Noted(lastOp)
             /\ UNCHANGED lcd

\* a method is entered and runs up to its first endTransmission(); trace
\* holds the last answer of the transport and the calls made since
Entered(c, f) ==
    LET k == NextEnd(f.out, 1) IN
    /\ Idle
    /\ pc.at = 0
    /\ c.name = "begin" \/ begun
    /\ k > 0
    /\ lastOp' = c
    /\ pc' = [at |-> k, prog |-> f.out, ret |-> <<f.self>>]
    /\ trace' = SubSeq(f.out, 1, k - 1)
    /\ UNCHANGED <<_i2cAddr, _displayfunction, _displaycontrol,
                   _displaymode, _numlines, _currline, begun,
                   lastBacklight, lcd>>

StepCall ==
    \E c \in StepCalls :
        \E junk \in JunkFor(c) :
            Entered(c, Program(c, junk))

\* Wire.endTransmission() returns 0
TransportSucceeds ==
    /\ pc.at > 0
    /\ GoOn(0)

\* Wire.endTransmission() returns non-zero: the loop of burstBits calls it
\* again (trace shows one refusal, however many there were), begin() goes on
TransportFails ==
    /\ pc.at > 0
    /\ IF Repeats(pc.prog, pc.at)
       THEN /\ trace' = IF IsEndTransmission(trace[Len(trace)]) /\ Len(trace) > 1
                        THEN trace
                        ELSE Append(trace, Ev("endTransmission", 1))
            /\ UNCHANGED <<_i2cAddr, _displayfunction, _displaycontrol,
                           _displaymode, _numlines, _currline, lastOp,
                           begun, lastBacklight, pc, lcd>>
       ELSE GoOn(1)

NextStep ==
    \/ Resume
    \/ StepCall
    \/ TransportSucceeds
    \/ TransportFails

\* the transport does not refuse one transaction for ever
SpecStepFair == Init /\ [][NextStep]_vars /\ WF_vars(TransportSucceeds)

---------------------------------------------------------------------------
(* Claims *)

\* C1: for every constructor argument a in 0..255 the stored bus address is
\* min(a, 7); no operation changes it, it stays in 0..7, and every bus
\* transaction is addressed to the fixed base address combined with it.
C1_BusAddress ==
    /\ [](lastOp.name = "LiquidTWI" =>
            /\ _i2cAddr = Min(lastOp.args[1], 7)
            /\ \A a \in 0..255 : \A u \in Uninit :
                  LiquidTWI(a, u)._i2cAddr = Min(a, 7))
    /\ [][_i2cAddr' = _i2cAddr]_vars
    /\ [](/\ _i2cAddr \in 0..7
          /\ \A i \in 1..Len(trace) :
                trace[i].call = "beginTransmission" =>
                    trace[i].arg = MCP23008_ADDRESS + _i2cAddr)

\* an argument above 7 was clamped, and calls have since addressed device 0x27
C1_Witness ==
    /\ lastOp.name = "createChar"
    /\ begun
    /\ _i2cAddr = 7
    /\ \E i \in 1..Len(trace) :
          trace[i].call = "beginTransmission" /\ trace[i].arg = 39

\* C2: every begin() transmits the eight output-register writes 0x9C, 0x98,
\* 0x9C, 0x98, 0x9C, 0x98, 0x94, 0x90 in that order, nothing else written to
\* the output register between them, and all eight before the first byte
\* of the function-set command.
C2_HandshakeFirst ==
    lastOp.name = "begin" =>
        LET w == RegWrites(trace)
            n == Nibbles(trace)
        IN  /\ Len(w) >= 12
            /\ SubSeq(w, 1, 8) = <<156, 152, 156, 152, 156, 152, 148, 144>>
            /\ Len(n) >= 6
            /\ SubSeq(n, 1, 4) = <<Nibble(0, 3), Nibble(0, 3), Nibble(0, 3), Nibble(0, 2)>>
            /\ SubSeq(n, 5, 6) = Cmd(Or(LCD_FUNCTIONSET, _displayfunction))
            \* the function-set command is carried by writes 9..12
            /\ (w[9] \div 8) % 16 = Or(LCD_FUNCTIONSET, _displayfunction) \div 16
            /\ (w[11] \div 8) % 16 = Or(LCD_FUNCTIONSET, _displayfunction) % 16

\* begin() has run a second time, on a driver that an earlier begin() and
\* other calls had left in another state
C2_Witness ==
    /\ lastOp.name = "begin"
    /\ lastOp.args[2] = 1
    /\ _displayfunction = Or(LCD_2LINE, LCD_5x10DOTS)
    /\ Len(RegWrites(trace)) = 29

C4_ExpanderFirst ==
    lastOp.name = "begin" =>
        LET ev == Events(trace)
            t  == Txns(trace)
        IN  /\ Len(ev) >= 1
            /\ ev[1].kind = "delay"
            /\ ev[1].arg >= 50
            /\ Len(t) >= 3
            /\ Len(t[1].bytes) > 2
            /\ t[1].bytes[1] = MCP23008_IODIR
            /\ t[1].bytes[2] = 255
            /\ \A i \in 3..Len(t[1].bytes) : t[1].bytes[i] = 0
            /\ t[2].bytes = <<MCP23008_IODIR, 0>>
            /\ t[1].dev = MCP23008_ADDRESS + _i2cAddr
            /\ t[2].dev = MCP23008_ADDRESS + _i2cAddr
            /\ \A i \in 1..Len(t) : IsRegWrite(t[i]) => i > 2
            /\ IsRegWrite(t[3])

\* begin() has run with the transport refusing the direction-register writes
C4_Witness ==
    /\ lastOp.name = "begin"
    /\ Len(Txns(trace)) = 31
    /\ Txns(trace)[1].acks = <<1>>
    /\ Len(Txns(trace)[1].bytes) = 11

\* C5: for every byte v and the same backlight state, the four register
\* bytes of write(v) and the four of command(v) are pairwise equal in every
\* bit except RS (bit 1), which is 1 in all of write(v) and 0 in all of
\* command(v); both send the high nibble before the low nibble.
C5_WriteCommandDifferInRS ==
    lastOp.name \in {"write", "command"} =>
        LET v == lastOp.args[1]
            w == IF lastOp.name = "write" THEN RegWrites(trace)
                 ELSE RegWrites(write(Enter(0), v).out)
            c == IF lastOp.name = "command" THEN RegWrites(trace)
                 ELSE RegWrites(command(Enter(0), v).out)
        IN  /\ Len(w) = 4
            /\ Len(c) = 4
            /\ \A i \in 1..4 :
                  /\ Bit(w[i], 1) = 1
                  /\ Bit(c[i], 1) = 0
                  /\ \A k \in (0..7) \ {1} : Bit(w[i], k) = Bit(c[i], k)
            /\ (w[1] \div 8) % 16 = v \div 16
            /\ (w[2] \div 8) % 16 = v \div 16
            /\ (w[3] \div 8) % 16 = v % 16
            /\ (w[4] \div 8) % 16 = v % 16

\* write(0xA5) has run with the backlight on
C5_Witness ==
    /\ lastOp.name = "write"
    /\ lastOp.args = <<165>>
    /\ lastBacklight = "on"
    /\ RegWrites(trace) = <<214, 210, 174, 170>>

\* C6: after begin(16, 2), for every col in 0..15, setCursor(col, 0) sends
\* exactly one command, 0x80 | col, and setCursor(col, 1) sends exactly one
\* command, 0x80 | (0x40 + col).
C6_CursorAddress ==
    ( /\ lastOp.name = "setCursor"
      /\ begun
      /\ _numlines = 2
      /\ lastOp.args[1] \in 0..15
      /\ lastOp.args[2] \in {0, 1} ) =>
        LET col == lastOp.args[1]
            row == lastOp.args[2]
        IN  /\ Len(RegWrites(trace)) = 4
            /\ View(trace) = Cmd(Or(128, IF row = 0 THEN col ELSE 64 + col))

\* setCursor(9, 1) has run on a two-line display
C6_Witness ==
    /\ lastOp.name = "setCursor"
    /\ lastOp.args = <<9, 1>>
    /\ begun
    /\ _numlines = 2
    /\ Nibbles(trace) = <<Nibble(0, 12), Nibble(0, 9)>>

\* the premise of C7: begin(16, 2), then setCursor(15, 1), then write('A')
C7_Scenario ==
    /\ lastOp.name = "setCursor;write"
    /\ lastOp.args = <<15, 1, 65>>
    /\ begun
    /\ _numlines = 2

\* C7 as stated: in that scenario the bus carries the DDRAM address command
\* 0x54 (as the command byte, or as its address field), then the two-nibble
\* data burst of 0x41: RS set, high nibble 0x4, then low nibble 0x1.
C7_Original ==
    C7_Scenario =>
        LET n == Nibbles(trace) IN
        /\ Len(n) = 4
        /\ SubSeq(n, 1, 2) \in {Cmd(84), Cmd(Or(LCD_SETDDRAMADDR, 84))}
        /\ SubSeq(n, 3, 4) = <<Nibble(1, 4), Nibble(1, 1)>>

\* C7 amended: in that scenario the bus carries the DDRAM address command
\* 0xCF (address 0x4F = 0x40 + 15), then the two-nibble data burst of 0x41:
\* RS set, high nibble 0x4, then low nibble 0x1.
C7_CursorThenWrite ==
    C7_Scenario =>
        /\ Len(RegWrites(trace)) = 8
        /\ View(trace) = Cmd(207) \o <<Nibble(1, 4), Nibble(1, 1)>>

\* the scenario has run, with the transport refusing every write once
C7_Witness ==
    /\ C7_Scenario
    /\ Len(trace) = 41
    /\ trace[1] = Ev("row_offsets", 1)

\* C8: with lineCount in 1..4 set by begin(), setCursor(col, row) looks the
\* row base address up at an index in 0..lineCount-1, whatever row is.
C8_RowClamped ==
    ( /\ lastOp.name = "setCursor"
      /\ begun
      /\ _numlines \in 1..4 ) =>
        /\ trace[1].call = "row_offsets"
        /\ trace[1].arg \in 0..(_numlines - 1)

\* C9: every clear() and every home() transmits its command byte, all four
\* register writes of it, each accepted by the transport, and then waits at
\* least 2000 microseconds; the wait is the last thing the call does.
C9_ClearHomeWait ==
    lastOp.name \in {"clear", "home"} =>
        LET ev == Events(trace) IN
        /\ Len(ev) = 5
        /\ \A i \in 1..4 :
              /\ IsRegWrite(ev[i])
              /\ ev[i].acks # <<>>
              /\ ev[i].acks[Len(ev[i].acks)] = 0
        /\ ev[5].kind = "delayMicroseconds"
        /\ ev[5].arg >= 2000
        /\ trace[Len(trace)].call = "delayMicroseconds"
        /\ Nibbles(trace) = Cmd(IF lastOp.name = "clear"
                                THEN LCD_CLEARDISPLAY ELSE LCD_RETURNHOME)

\* clear() has run, with the transport refusing every write once
C9_Witness ==
    /\ lastOp.name = "clear"
    /\ Len(trace) = 21
    /\ trace[21] = Ev("delayMicroseconds", 2000)
    /\ Nibbles(trace) = <<Nibble(0, 0), Nibble(0, 1)>>

\* the calls C10 names as leaving the backlight alone
BacklightKeepers ==
    { "display", "noDisplay", "cursor", "noCursor", "blink", "noBlink",
      "leftToRight", "rightToLeft", "autoscroll", "noAutoscroll",
      "scrollDisplayLeft", "scrollDisplayRight", "clear", "home",
      "setCursor", "write", "command", "createChar" }

\* C10: setBacklight(s) transmits exactly one register write, 0x80 when s
\* is on and 0x00 when off; from then on, until the next setBacklight or
\* begin, every register byte any other call transmits has bit 7 equal to s.
C10_BacklightPersists ==
    /\ lastOp.name = "setBacklight" =>
          RegWrites(trace) = <<IF lastOp.args[1] # 0 THEN 128 ELSE 0>>
    /\ (lastOp.name \in BacklightKeepers /\ lastBacklight # "unset") =>
          LET w == RegWrites(trace) IN
          /\ w # <<>>
          /\ \A i \in 1..Len(w) :
                Bit(w[i], 7) = (IF lastBacklight = "on" THEN 1 ELSE 0)

\* the backlight was switched off and noCursor() has since been called, on
\* a driver whose display and blink flags are set
C10_Witness ==
    /\ lastOp.name = "noCursor"
    /\ lastBacklight = "off"
    /\ begun
    /\ _displaycontrol = Or(LCD_DISPLAYON, LCD_BLINKON)
    /\ RegWrites(trace) = <<4, 0, 108, 104>>

\* C11: after every begin(cols, rows, fontVariant), the first on the object
\* or a repeated one, the function-set command carries the 2-line flag if
\* and only if rows > 1, and the 5x10 font flag if and only if
\* fontVariant != 0 and rows == 1.
C11_FunctionFlags ==
    lastOp.name = "begin" =>
        LET n     == Nibbles(trace)
            fs    == ByteAt(n, 5)
            lines == lastOp.args[2]
            dots  == lastOp.args[3]
        IN  /\ Len(n) >= 8
            /\ ByteAt(n, 7) = fs
            /\ And(fs, LCD_FUNCTIONSET) # 0
            /\ (And(fs, LCD_2LINE) # 0) <=> (lines > 1)
            /\ (And(fs, LCD_5x10DOTS) # 0) <=> (dots # 0 /\ lines = 1)

\* C14: for every byte v and either mode, one write(v) or command(v)
\* transmits exactly four register bytes and nothing else: the high nibble
\* with EN set, the same byte with only EN cleared, the low nibble with EN
\* set, the same byte with only EN cleared; bits 6..3 of the first pair are
\* v >> 4, of the second pair v & 0x0F; bit 0 is 0 in all four.
C14_FourBytes ==
    lastOp.name \in {"write", "command"} =>
        LET v == lastOp.args[1]
            w == RegWrites(trace)
        IN  /\ Len(Events(trace)) = 4
            /\ Len(w) = 4
            /\ Bit(w[1], 2) = 1
            /\ w[2] = w[1] - 4
            /\ Bit(w[3], 2) = 1
            /\ w[4] = w[3] - 4
            /\ (w[1] \div 8) % 16 = v \div 16
            /\ (w[3] \div 8) % 16 = v % 16
            /\ \A i \in 1..4 : Bit(w[i], 0) = 0

\* write(0xA5) has run after begin(), with the backlight on
C14_Witness ==
    /\ lastOp.name = "write"
    /\ lastOp.args = <<165>>
    /\ begun
    /\ RegWrites(trace) = <<214, 210, 174, 170>>

\* the members other than the one named are as before the call
OthersKept(member) ==
    /\ member = "_displaycontrol" \/ _displaycontrol' = _displaycontrol
    /\ member = "_displaymode" \/ _displaymode' = _displaymode
    /\ UNCHANGED <<_i2cAddr, _displayfunction, _numlines, _currline>>

\* the call changed at most the given bit of _displaycontrol and sent the
\* one command made of the updated field
ControlToggled(bit) ==
    /\ AndNot(_displaycontrol', bit) = AndNot(_displaycontrol, bit)
    /\ OthersKept("_displaycontrol")
    /\ Len(Events(trace')) = 4
    /\ Nibbles(trace') = Cmd(Or(LCD_DISPLAYCONTROL, _displaycontrol'))

\* the same for _displaymode
ModeToggled(bit) ==
    /\ AndNot(_displaymode', bit) = AndNot(_displaymode, bit)
    /\ OthersKept("_displaymode")
    /\ Len(Events(trace')) = 4
    /\ Nibbles(trace') = Cmd(Or(LCD_ENTRYMODESET, _displaymode'))

FlagKeepers ==
    { "scrollDisplayLeft", "scrollDisplayRight", "clear", "home",
      "setCursor", "write", "createChar" }

\* C15: display/noDisplay, cursor/noCursor, blink/noBlink each change at
\* most their own bit of _displaycontrol and leave its other bits (the
\* backlight among them), _displaymode and _displayfunction as they were;
\* leftToRight/rightToLeft and autoscroll/noAutoscroll each change at most
\* their own bit of _displaymode and leave the other fields as they were;
\* scrollDisplayLeft/Right, clear, home, setCursor, write and createChar
\* leave every flag field, _numlines and _i2cAddr as they were. Each toggle
\* sends exactly one command, made of the updated field.
C15_Frame ==
    [][ LET op == lastOp'.name IN
        /\ op \in {"display", "noDisplay"} => ControlToggled(LCD_DISPLAYON)
        /\ op \in {"cursor", "noCursor"} => ControlToggled(LCD_CURSORON)
        /\ op \in {"blink", "noBlink"} => ControlToggled(LCD_BLINKON)
        /\ op \in {"leftToRight", "rightToLeft"} => ModeToggled(LCD_ENTRYLEFT)
        /\ op \in {"autoscroll", "noAutoscroll"} =>
              ModeToggled(LCD_ENTRYSHIFTINCREMENT)
        /\ op \in FlagKeepers => OthersKept("none")
      ]_vars

\* rightToLeft() has run on a begun driver that had autoscroll switched on
C15_Witness ==
    /\ lastOp.name = "rightToLeft"
    /\ begun
    /\ _displaymode = LCD_ENTRYSHIFTINCREMENT
    /\ _displaycontrol = Or(LCD_DISPLAYON, LCD_BACKLIGHT)
    /\ Nibbles(trace) = Cmd(Or(LCD_ENTRYMODESET, LCD_ENTRYSHIFTINCREMENT))

ControlToggles ==
    { "display", "noDisplay", "cursor", "noCursor", "blink", "noBlink" }

\* C16: whatever the backlight flag and the display, cursor and blink flags
\* in _displaycontrol are, the command display/noDisplay/cursor/noCursor/
\* blink/noBlink sends is the display-control opcode with those three flags
\* and nothing else; the backlight flag shows only in bit 7 of the four
\* register bytes.
C16_ControlCommand ==
    (lastOp.name \in ControlToggles /\ _displaycontrol < 16) =>
        LET v  == LCD_DISPLAYCONTROL + (_displaycontrol % 8)
            hi == (v \div 16) * 8
            lo == (v % 16) * 8
            w  == RegWrites(trace)
        IN  /\ Nibbles(trace) = Cmd(v)
            /\ Len(w) = 4
            /\ [i \in 1..4 |-> w[i] % 128] = <<hi + 4, hi, lo + 4, lo>>
            /\ \A i \in 1..4 : Bit(w[i], 7) = Bit(_displaycontrol, 3)

\* blink() has run with the backlight on, and with it off
C16_Witness ==
    /\ lastOp.name = "blink"
    /\ begun
    /\ \/ /\ _displaycontrol = LCD_DISPLAYON + LCD_BLINKON
          /\ RegWrites(trace) = <<4, 0, 108, 104>>
       \/ /\ _displaycontrol = LCD_BACKLIGHT + LCD_DISPLAYON + LCD_BLINKON
          /\ RegWrites(trace) = <<132, 128, 236, 232>>

\* C17: for every location and every 8-byte charmap, createChar sends
\* exactly one command, set-CGRAM-address with (location & 7) << 3, then
\* exactly eight data bytes, charmap[0] .. charmap[7] in this order, and
\* nothing else.
C17_CreateChar ==
    lastOp.name = "createChar" =>
        LET loc == lastOp.args[1]
            map == lastOp.args[2]
            ev  == Events(trace)
            n   == SelectSeq(ViewOf(ev), IsNibble)
        IN  /\ Len(ev) = 36
            /\ \A i \in 1..Len(ev) : IsRegWrite(ev[i])
            /\ Len(n) = 18
            /\ SubSeq(n, 1, 2) = Cmd(LCD_SETCGRAMADDR + (loc % 8) * 8)
            /\ \A i \in 1..8 : SubSeq(n, 2 * i + 1, 2 * i + 2) = Data(map[i])

\* createChar(21, ..) has run and addressed slot 5
C17_Witness ==
    /\ lastOp.name = "createChar"
    /\ lastOp.args[1] = 21
    /\ lastOp.args[2][8] = 255
    /\ SubSeq(Nibbles(trace), 1, 2) = <<Nibble(0, 6), Nibble(0, 8)>>
    /\ SubSeq(Nibbles(trace), 17, 18) = <<Nibble(1, 15), Nibble(1, 15)>>

\* C18: every endTransmission() that a write of the output register makes,
\* a retry after a failed one included, has since the endTransmission()
\* before it a beginTransmission() to the device and the write() of the
\* register number and of the value: no transaction of the output register
\* is ended more than once.
C18_AttemptCarriesValue ==
    LET ev == Events(trace) IN
    \A i \in 1..Len(ev) : IsRegWrite(ev[i]) => Len(ev[i].acks) = 1

\* C19: whatever number of lines begin() has stored in _numlines and
\* whatever row is passed, setCursor reads row_offsets[] at an index in
\* 0..3.
C19_TableIndex ==
    (begun /\ lastOp.name = "setCursor") =>
        /\ trace # <<>>
        /\ trace[1].call = "row_offsets"
        /\ trace[1].arg \in 0..(Len(row_offsets) - 1)

\* the call being followed has a write of the output register in flight:
\* beginTransmission(), write(MCP23008_GPIO), write(value) are made and
\* endTransmission() is being called
RegisterWritePending ==
    LET t == SelectSeq(trace, LAMBDA e : ~IsEndTransmission(e))
        n == Len(t)
    IN  /\ pc.at > 0
        /\ n >= 3
        /\ t[n - 2].call = "beginTransmission"
        /\ t[n - 1] = Ev("write", MCP23008_GPIO)
        /\ t[n].call = "write"

\* C12: a write of the output register is left only when the transport
\* has reported success, and a reported failure leaves the call where it
\* is, to call endTransmission() again: there is no other way out, no
\* error and no timeout. If the transport does not refuse a transaction
\* for ever, every call of a public method returns.
C12_RetryUntilSuccess ==
    /\ [][ RegisterWritePending =>
             /\ pc'.at # pc.at => trace'[1] = Ev("endTransmission", 0)
             /\ (trace' # trace /\ trace'[Len(trace')] = Ev("endTransmission", 1))
                   => pc' = pc /\ lastOp' = lastOp
         ]_vars
    /\ (pc.at > 0) ~> (pc.at = 0)

\* clear() is running; its third register write has been refused and
\* endTransmission() is being called again
C12_Witness ==
    /\ lastOp.name = "clear"
    /\ RegisterWritePending
    /\ pc.at = 14
    /\ trace[Len(trace)] = Ev("endTransmission", 1)

====
